---- MODULE Spec2Model ----
(***************************************************************************)
(* AirParty signaling server: rooms, host/peer membership, relay and the   *)
(* delayed deletion of empty rooms.  The store is modelled as the three    *)
(* process-wide maps of the server (rooms, roomDeleteTimers, meta) plus    *)
(* the set of timers the runtime holds armed; every WebSocket handler is   *)
(* one atomic action (Node runs each callback to completion).              *)
(*                                                                         *)
(* outbox and last describe the callback that just ran: what it sent and   *)
(* what it did.  Flush drops them before the next callback runs, so a      *)
(* property of one dispatch is a property of the states where last is set. *)
(* views is what each client can know of a room it is a member of, from    *)
(* the envelopes it was sent.                                              *)
(*                                                                         *)
(* Spec is the server of the file with the grace period and the join that  *)
(* creates its room; SpecServerJs is the server of src/server.js.          *)
(***************************************************************************)
EXTENDS Integers, Sequences, FiniteSets, TLC

\* ------------------------------------------------------------- bounds
NumConns == 2
MaxTimers == 2

Conns == 1..NumConns
TimerIds == 1..MaxTimers

\* Strings a client can put in msg.id / msg.room / msg.to (absent field = "").
RawIds == {"", "a", " b"}
RawRooms == {"", " ", "X", " Y"}
RawTos == {"", "*", "all", " b"}
\* JS values a client can put in msg.payload, by kind.
Payloads == {"obj", "zero"}
\* The relay messages tried: every room and target with an object payload, and
\* the falsy payload on a broadcast and on a directed relay in the sender's room.
RelayMsgs ==
    {[room |-> r, to |-> t, payload |-> "obj"] : r \in RawRooms, t \in RawTos}
    \cup {[room |-> "", to |-> t, payload |-> "zero"] : t \in {"*", " b"}}
Falsy == {"zero", "undefined", "null", "false", "emptystr"}

VARIABLES
    status,            \* conn -> "none" | "open" | "closed"   (ws.readyState)
    meta,              \* conn -> [id, room]                   (WeakMap meta)
    rooms,             \* roomId -> [hostId, clients]          (Map rooms)
    roomDeleteTimers,  \* roomId -> timer id                   (Map roomDeleteTimers)
    timers,            \* armed timer id -> roomId             (runtime timer queue)
    stale,             \* history: armed timers that outlived an ensureRoom of their room
    outbox,            \* conn -> envelopes sent to it by the last handler
    last,              \* history: what the last handler was and did
    views              \* conn -> roomId -> what the client knows of the room from
                       \*   the envelopes it was sent since it was added to it

vars == <<status, meta, rooms, roomDeleteTimers, timers, stale, outbox, last, views>>

\* ------------------------------------------------------------- JS helpers
\* String.prototype.trim on the strings above.
Trim(s) ==
    CASE s = " " -> ""
      [] s = " b" -> "b"
      [] s = " Y" -> "Y"
      [] OTHER -> s

\* a || b on strings: the empty string is falsy.
Or(a, b) == IF a = "" THEN b ELSE a

\* msg.payload || null
OrNull(p) == IF p \in Falsy THEN "null" ELSE p

Restrict(f, D) == [x \in D |-> f[x]]

\* Map<clientId, ws> keeps insertion order: a sequence of [id, ws] entries.
MapHas(m, k) == \E i \in 1..Len(m) : m[i].id = k
MapGet(m, k) == m[CHOOSE i \in 1..Len(m) : m[i].id = k].ws
MapKeys(m) == [i \in 1..Len(m) |-> m[i].id]
MapKeySet(m) == {m[i].id : i \in 1..Len(m)}
MapValues(m) == {m[i].ws : i \in 1..Len(m)}
MapDelete(m, k) == SelectSeq(m, LAMBDA e : e.id # k)
MapSet(m, k, v) ==
    IF MapHas(m, k)
    THEN [i \in 1..Len(m) |-> IF m[i].id = k THEN [id |-> k, ws |-> v] ELSE m[i]]
    ELSE Append(m, [id |-> k, ws |-> v])

\* ------------------------------------------------------------- store
\* The handlers thread one store value S through the helper functions.
Store(open) ==
    [rooms |-> rooms, roomDeleteTimers |-> roomDeleteTimers, timers |-> timers,
     out |-> [c \in Conns |-> <<>>], open |-> open, overflow |-> FALSE]

send(S, ws, obj) ==
    IF ws \notin S.open THEN S
    ELSE [S EXCEPT !.out[ws] = Append(@, obj)]

\* Mutant: the pending delete is left in place when the room is ensured.
ensureRoom_KeepTimer(S, roomId) ==
    IF roomId \notin DOMAIN S.rooms
    THEN [S EXCEPT !.rooms = (roomId :> [hostId |-> "", clients |-> <<>>]) @@ @]
    ELSE S

ensureRoom(S, roomId) ==
    LET S1 == IF roomId \notin DOMAIN S.rooms
              THEN [S EXCEPT !.rooms = (roomId :> [hostId |-> "", clients |-> <<>>]) @@ @]
              ELSE S
    IN  IF roomId \in DOMAIN S1.roomDeleteTimers
        THEN [S1 EXCEPT
                !.timers = Restrict(@, DOMAIN @ \ {S1.roomDeleteTimers[roomId]}),
                !.roomDeleteTimers = Restrict(@, DOMAIN @ \ {roomId})]
        ELSE S1

\* setTimeout returns a handle no armed timer has.
FreshTimer(S) == CHOOSE t \in TimerIds \ DOMAIN S.timers :
                    \A u \in TimerIds \ DOMAIN S.timers : t <= u

scheduleRoomDeleteIfEmpty(S, roomId) ==
    IF roomId \notin DOMAIN S.rooms THEN S
    ELSE IF Len(S.rooms[roomId].clients) # 0 THEN S
    ELSE IF TimerIds \ DOMAIN S.timers = {} THEN [S EXCEPT !.overflow = TRUE]
    ELSE LET t == FreshTimer(S)
         IN  [S EXCEPT !.timers = (t :> roomId) @@ @,
                       !.roomDeleteTimers = (roomId :> t) @@ @]

\* Mutant: the remaining peers are told of the leave but not of the host.
RECURSIVE NotifyLeft_NoHost(_, _, _, _, _)
NotifyLeft_NoHost(S, cl, i, clientId, hostId) ==
    IF i > Len(cl) THEN S
    ELSE NotifyLeft_NoHost(
            send(S, cl[i].ws, [type |-> "peer_left", peerId |-> clientId]),
            cl, i + 1, clientId, hostId)

\* Notify remaining peers: peer_left, then the current host, entry by entry.
RECURSIVE NotifyLeft(_, _, _, _, _)
NotifyLeft(S, cl, i, clientId, hostId) ==
    IF i > Len(cl) THEN S
    ELSE NotifyLeft(
            send(send(S, cl[i].ws, [type |-> "peer_left", peerId |-> clientId]),
                 cl[i].ws, [type |-> "host_update", hostId |-> hostId]),
            cl, i + 1, clientId, hostId)

\* Mutant: a room whose host leaves is left without a host.
Promote_Clear(hostId, clientId, remaining) ==
    IF hostId = clientId THEN "" ELSE hostId

\* Mutant: the host is kept when it leaves.
Promote_Keep(hostId, clientId, remaining) == hostId

\* If host left, promote first remaining client (if any).
Promote(hostId, clientId, remaining) ==
    IF hostId = clientId
    THEN (IF Len(remaining) > 0 THEN remaining[1].id ELSE "")
    ELSE hostId

\* Mutant: the next host is picked before the leaving client is deleted.
removeClientFromRoom_PromoteBeforeDelete(S, clientId, roomId) ==
    IF roomId \notin DOMAIN S.rooms THEN S
    ELSE LET r == S.rooms[roomId]
             cl == MapDelete(r.clients, clientId)
             h == IF r.hostId = clientId /\ Len(r.clients) > 0
                  THEN r.clients[1].id
                  ELSE r.hostId
             S1 == [S EXCEPT !.rooms[roomId] = [hostId |-> h, clients |-> cl]]
             S2 == NotifyLeft(S1, cl, 1, clientId, h)
         IN  IF Len(cl) = 0 THEN scheduleRoomDeleteIfEmpty(S2, roomId) ELSE S2

removeClientFromRoom(S, clientId, roomId) ==
    IF roomId \notin DOMAIN S.rooms THEN S
    ELSE LET r == S.rooms[roomId]
             cl == MapDelete(r.clients, clientId)
             h == Promote(r.hostId, clientId, cl)
             S1 == [S EXCEPT !.rooms[roomId] = [hostId |-> h, clients |-> cl]]
             S2 == NotifyLeft(S1, cl, 1, clientId, h)
         IN  IF Len(cl) = 0 THEN scheduleRoomDeleteIfEmpty(S2, roomId) ELSE S2

RECURSIVE NotifyJoined(_, _, _, _)
NotifyJoined(S, cl, i, clientId) ==
    IF i > Len(cl) THEN S
    ELSE NotifyJoined(
            IF cl[i].id # clientId
            THEN send(S, cl[i].ws, [type |-> "peer_joined", peerId |-> clientId])
            ELSE S,
            cl, i + 1, clientId)

RECURSIVE NotifyHost(_, _, _, _)
NotifyHost(S, cl, i, hostId) ==
    IF i > Len(cl) THEN S
    ELSE NotifyHost(send(S, cl[i].ws, [type |-> "host_update", hostId |-> hostId]),
                    cl, i + 1, hostId)

\* Mutant: the host is announced before the join.
addClientToRoom_HostFirst(S, clientId, roomId, ws) ==
    LET S1 == ensureRoom(S, roomId)
        cl == MapSet(S1.rooms[roomId].clients, clientId, ws)
        S2 == [S1 EXCEPT !.rooms[roomId].clients = cl]
        S3 == NotifyHost(S2, cl, 1, S2.rooms[roomId].hostId)
    IN  NotifyJoined(S3, cl, 1, clientId)

addClientToRoom(S, clientId, roomId, ws) ==
    LET S1 == ensureRoom(S, roomId)
        cl == MapSet(S1.rooms[roomId].clients, clientId, ws)
        S2 == [S1 EXCEPT !.rooms[roomId].clients = cl]
        S3 == NotifyJoined(S2, cl, 1, clientId)
    IN  NotifyHost(S3, cl, 1, S2.rooms[roomId].hostId)

RelayEnvelope(fromId, payload) == [type |-> "relay", from |-> fromId, payload |-> payload]

RECURSIVE FanOut(_, _, _, _, _)
FanOut(S, cl, i, fromId, payload) ==
    IF i > Len(cl) THEN S
    ELSE FanOut(
            IF cl[i].id = fromId THEN S
            ELSE send(S, cl[i].ws, RelayEnvelope(fromId, payload)),
            cl, i + 1, fromId, payload)

\* Mutant: a directed relay whose target is absent falls back to the fan-out.
relay_AbsentFansOut(S, roomId, fromId, to, payload) ==
    IF roomId \notin DOMAIN S.rooms THEN S
    ELSE LET cl == S.rooms[roomId].clients
         IN  IF to = "*" \/ to = "all" THEN FanOut(S, cl, 1, fromId, payload)
             ELSE IF MapHas(cl, to)
                  THEN send(S, MapGet(cl, to), RelayEnvelope(fromId, payload))
                  ELSE FanOut(S, cl, 1, fromId, payload)

relay(S, roomId, fromId, to, payload) ==
    IF roomId \notin DOMAIN S.rooms THEN S
    ELSE LET cl == S.rooms[roomId].clients
         IN  IF to = "*" \/ to = "all" THEN FanOut(S, cl, 1, fromId, payload)
             ELSE IF MapHas(cl, to)
                  THEN send(S, MapGet(cl, to), RelayEnvelope(fromId, payload))
                  ELSE S

\* Array.from(r.clients.keys()).filter((x) => x !== id)
Peers(cl, id) == SelectSeq(MapKeys(cl), LAMBDA x : x # id)

\* ------------------------------------------------------------- history
NoRem == [called |-> FALSE, room |-> "", clientId |-> "", had |-> FALSE, ws |-> 0,
          wasHost |-> FALSE, hostAfter |-> "", keysAfter |-> {}, armed |-> FALSE]

\* What removeClientFromRoom(clientId, roomId) did, from the stores around the call.
RemOf(S0, S1, clientId, roomId) ==
    IF roomId \notin DOMAIN S0.rooms THEN [NoRem EXCEPT !.called = TRUE,
                                             !.room = roomId, !.clientId = clientId]
    ELSE [called |-> TRUE, room |-> roomId, clientId |-> clientId,
          had |-> MapHas(S0.rooms[roomId].clients, clientId),
          ws |-> IF MapHas(S0.rooms[roomId].clients, clientId)
                 THEN MapGet(S0.rooms[roomId].clients, clientId) ELSE 0,
          wasHost |-> S0.rooms[roomId].hostId = clientId,
          hostAfter |-> S1.rooms[roomId].hostId,
          keysAfter |-> MapKeySet(S1.rooms[roomId].clients),
          armed |-> \E t \in DOMAIN S1.timers : S1.timers[t] = roomId]

NoLast == [op |-> "idle", conn |-> 0, room |-> "", err |-> FALSE, ensured |-> FALSE,
           absentBefore |-> FALSE, rejoin |-> FALSE, rem |-> NoRem,
           bcast |-> FALSE, to |-> "", from |-> "", payload |-> "", timerStale |-> FALSE,
           deleted |-> FALSE, cancelled |-> FALSE, leaveLen |-> [d \in Conns |-> 0]]

\* The room ids a handler can resolve.
RoomIds == {Trim(r) : r \in RawRooms} \ {""}

\* A client's picture of a room: the host of the last host_update or room_joined,
\* and the peers of the last room_joined with each later peer_joined added and
\* each later peer_left taken away.
NoView == [known |-> FALSE, hostId |-> "", peers |-> {}]

ApplyEnvelope(v, e) ==
    CASE e.type = "room_joined" ->
            [known |-> TRUE, hostId |-> e.hostId,
             peers |-> {e.peers[i] : i \in 1..Len(e.peers)}]
      [] e.type = "host_update" -> [v EXCEPT !.hostId = e.hostId]
      [] e.type = "peer_joined" -> [v EXCEPT !.peers = @ \cup {e.peerId}]
      [] e.type = "peer_left" -> [v EXCEPT !.peers = @ \ {e.peerId}]
      [] OTHER -> v

RECURSIVE ApplyEnvelopes(_, _, _)
ApplyEnvelopes(v, seq, i) ==
    IF i > Len(seq) THEN v
    ELSE ApplyEnvelopes(ApplyEnvelope(v, seq[i]), seq, i + 1)

\* The envelopes the handler sent to d about room r: those of the leave are about
\* the room left, those after it about the room entered.
EnvelopesAbout(S, l, d, r) ==
    (IF l.rem.called /\ l.rem.room = r
     THEN SubSeq(S.out[d], 1, l.leaveLen[d]) ELSE <<>>)
    \o (IF l.op \in {"create_room", "join_room"} /\ ~l.err /\ l.room = r
        THEN SubSeq(S.out[d], l.leaveLen[d] + 1, Len(S.out[d])) ELSE <<>>)

\* A view is kept for the open connections the room's member map holds.
ViewsAfter(S, l) ==
    [d \in Conns |-> [r \in RoomIds |->
        IF /\ d \in S.open
           /\ r \in DOMAIN S.rooms
           /\ d \in MapValues(S.rooms[r].clients)
        THEN ApplyEnvelopes(views[d][r], EnvelopesAbout(S, l, d, r), 1)
        ELSE NoView]]

\* Timer handles are opaque: when a callback returns, the armed timers are
\* renumbered 1..n (by room, then recorded in roomDeleteTimers or not, then stale
\* or not), so that states differing only in the handles' values are one state.
RoomOrd(r) == IF r = "X" THEN 0 ELSE 1
TimerKey(S, st, t) ==
    8 * (4 * RoomOrd(S.timers[t])
         + (IF \E r \in DOMAIN S.roomDeleteTimers : S.roomDeleteTimers[r] = t
            THEN 0 ELSE 2)
         + (IF t \in st THEN 1 ELSE 0))
    + t
TimerRank(S, st, t) ==
    Cardinality({u \in DOMAIN S.timers : TimerKey(S, st, u) <= TimerKey(S, st, t)})
TimerAt(S, st, i) == CHOOSE t \in DOMAIN S.timers : TimerRank(S, st, t) = i

\* The handler returns: its store becomes the process state.
CommitStore(S, newMeta, l) ==
    LET st == (stale \cap DOMAIN S.timers)
              \cup (IF l.ensured
                    THEN {t \in DOMAIN S.timers : S.timers[t] = l.room}
                    ELSE {})
        n == Cardinality(DOMAIN S.timers)
    IN  /\ ~S.overflow
        /\ rooms' = S.rooms
        /\ roomDeleteTimers' = [r \in DOMAIN S.roomDeleteTimers |->
                                    TimerRank(S, st, S.roomDeleteTimers[r])]
        /\ timers' = [i \in 1..n |-> S.timers[TimerAt(S, st, i)]]
        /\ outbox' = S.out
        /\ meta' = newMeta
        /\ stale' = {TimerRank(S, st, t) : t \in st}
        /\ last' = l

\* ... and the clients have what it sent them.
Commit(S, newMeta, l) ==
    /\ CommitStore(S, newMeta, l)
    /\ views' = ViewsAfter(S, l)

Open == {c \in Conns : status[c] = "open"}

\* The previous callback has returned and what it sent has left the process:
\* the event loop is free to run the next callback.
Idle == last.op = "idle"

ErrorReply(c, op, message) ==
    /\ Commit(send(Store(Open), c, [type |-> "error", message |-> message]), meta,
              [NoLast EXCEPT !.op = op, !.conn = c, !.err = TRUE])
    /\ UNCHANGED status

Init ==
    /\ status = [c \in Conns |-> "none"]
    /\ meta = [c \in Conns |-> [id |-> "", room |-> ""]]
    /\ rooms = <<>>
    /\ roomDeleteTimers = <<>>
    /\ timers = <<>>
    /\ stale = {}
    /\ outbox = [c \in Conns |-> <<>>]
    /\ last = NoLast
    /\ views = [c \in Conns |-> [r \in RoomIds |-> NoView]]


\* ------------------------------------------------------------- handlers
\* wss.on("connection"): a new socket is accepted.
Connect(c) ==
    /\ Idle
    /\ status[c] = "none"
    /\ status' = [status EXCEPT ![c] = "open"]
    /\ meta' = [meta EXCEPT ![c] = [id |-> "", room |-> ""]]
    /\ outbox' = [d \in Conns |-> <<>>]
    /\ last' = [NoLast EXCEPT !.op = "connect", !.conn = c]
    /\ UNCHANGED <<rooms, roomDeleteTimers, timers, stale, views>>

\* safeJsonParse fails or the value is no object: the message is dropped.
Malformed(c) ==
    /\ Idle
    /\ status[c] = "open"
    /\ Commit(Store(Open), meta, [NoLast EXCEPT !.op = "malformed", !.conn = c])
    /\ UNCHANGED status

Ping(c) ==
    /\ Idle
    /\ status[c] = "open"
    /\ Commit(send(Store(Open), c, [type |-> "pong"]), meta,
              [NoLast EXCEPT !.op = "ping", !.conn = c])
    /\ UNCHANGED status

Hello(c, rawId) ==
    /\ Idle
    /\ status[c] = "open"
    /\ LET id == Trim(Or(rawId, ""))
       IN  IF id = ""
           THEN ErrorReply(c, "hello", "Missing id in hello")
           ELSE /\ Commit(send(Store(Open), c, [type |-> "hello_ack", id |-> id]),
                          [meta EXCEPT ![c].id = id],
                          [NoLast EXCEPT !.op = "hello", !.conn = c])
                /\ UNCHANGED status

\* leave any previous room
LeavePrevious(S, m) ==
    IF m.room # "" THEN removeClientFromRoom(S, m.id, m.room) ELSE S

\* History of an enter (create_room / join_room) of roomId from store S0; S1 is
\* the store when the leave of the previous room has returned, and leaveLen the
\* number of envelopes each connection had been sent by then.
EnterLast(op, c, m, roomId, S0, S1) ==
    [NoLast EXCEPT
        !.op = op, !.conn = c, !.room = roomId, !.ensured = TRUE,
        !.leaveLen = [d \in Conns |-> Len(S1.out[d])],
        !.absentBefore = roomId \notin DOMAIN S0.rooms,
        !.rejoin = /\ roomId \in DOMAIN S0.rooms
                   /\ roomId \in DOMAIN S0.roomDeleteTimers
                   /\ Len(S0.rooms[roomId].clients) = 0,
        !.rem = IF m.room # "" THEN RemOf(S0, S1, m.id, m.room) ELSE NoRem]

CreateRoom(c, rawRoom) ==
    /\ Idle
    /\ status[c] = "open"
    /\ LET m == meta[c]
           roomId == Trim(Or(rawRoom, ""))
           S0 == Store(Open)
           S1 == LeavePrevious(S0, m)
           S2 == ensureRoom(S1, roomId)
           S3 == [S2 EXCEPT !.rooms[roomId].hostId = m.id]
           S4 == addClientToRoom(S3, m.id, roomId, c)
           r == S4.rooms[roomId]
           S5 == send(S4, c, [type |-> "room_created", room |-> roomId])
           S6 == send(S5, c, [type |-> "room_joined", room |-> roomId,
                              hostId |-> r.hostId, peers |-> Peers(r.clients, m.id)])
       IN  IF m.id = ""
           THEN ErrorReply(c, "create_room", "Send {type:'hello', id:'...'} first")
           ELSE IF roomId = ""
           THEN ErrorReply(c, "create_room", "Missing room id")
           ELSE /\ Commit(S6, [meta EXCEPT ![c].room = roomId],
                          EnterLast("create_room", c, m, roomId, S0, S1))
                /\ UNCHANGED status

\* Mutant: the previous room is left before the room id is validated.
JoinRoom_LeaveBeforeCheck(c, rawRoom) ==
    /\ Idle
    /\ status[c] = "open"
    /\ LET m == meta[c]
           roomId == Trim(Or(rawRoom, ""))
           S0 == Store(Open)
           S1 == LeavePrevious(S0, m)
           S2 == ensureRoom(S1, roomId)
           S3 == IF S2.rooms[roomId].hostId = ""
                 THEN [S2 EXCEPT !.rooms[roomId].hostId = m.id]
                 ELSE S2
           S4 == addClientToRoom(S3, m.id, roomId, c)
           r == S4.rooms[roomId]
           S5 == send(S4, c, [type |-> "room_joined", room |-> roomId,
                              hostId |-> r.hostId, peers |-> Peers(r.clients, m.id)])
       IN  IF m.id = ""
           THEN ErrorReply(c, "join_room", "Send {type:'hello', id:'...'} first")
           ELSE IF roomId = ""
           THEN /\ Commit(send(S1, c, [type |-> "error", message |-> "Missing room id"]),
                          meta,
                          [NoLast EXCEPT !.op = "join_room", !.conn = c, !.err = TRUE])
                /\ UNCHANGED status
           ELSE /\ Commit(S5, [meta EXCEPT ![c].room = roomId],
                          EnterLast("join_room", c, m, roomId, S0, S1))
                /\ UNCHANGED status

JoinRoom(c, rawRoom) ==
    /\ Idle
    /\ status[c] = "open"
    /\ LET m == meta[c]
           roomId == Trim(Or(rawRoom, ""))
           S0 == Store(Open)
           S1 == LeavePrevious(S0, m)
           S2 == ensureRoom(S1, roomId)
           S3 == IF S2.rooms[roomId].hostId = ""
                 THEN [S2 EXCEPT !.rooms[roomId].hostId = m.id]
                 ELSE S2
           S4 == addClientToRoom(S3, m.id, roomId, c)
           r == S4.rooms[roomId]
           S5 == send(S4, c, [type |-> "room_joined", room |-> roomId,
                              hostId |-> r.hostId, peers |-> Peers(r.clients, m.id)])
       IN  IF m.id = ""
           THEN ErrorReply(c, "join_room", "Send {type:'hello', id:'...'} first")
           ELSE IF roomId = ""
           THEN ErrorReply(c, "join_room", "Missing room id")
           ELSE /\ Commit(S5, [meta EXCEPT ![c].room = roomId],
                          EnterLast("join_room", c, m, roomId, S0, S1))
                /\ UNCHANGED status

\* History of a relay: the broadcast sentinels count as one kind, and the inbound
\* payload is kept only when an envelope went out.
RelayLast(c, m, roomId, to, rawPayload, S0, S2) ==
    [NoLast EXCEPT
        !.op = "relay", !.conn = c, !.room = roomId, !.ensured = TRUE,
        !.absentBefore = roomId \notin DOMAIN S0.rooms,
        !.cancelled = roomId \in DOMAIN S0.roomDeleteTimers,
        !.bcast = (to = "*" \/ to = "all"),
        !.to = IF to = "*" \/ to = "all" THEN "" ELSE to,
        !.from = m.id,
        !.payload = IF S2.out = S0.out THEN "" ELSE rawPayload]

Relay(c, rawRoom, rawTo, rawPayload) ==
    /\ Idle
    /\ status[c] = "open"
    /\ LET m == meta[c]
           roomId == Trim(Or(rawRoom, Or(m.room, "")))
           to == Trim(Or(rawTo, ""))
           payload == OrNull(rawPayload)
           S0 == Store(Open)
           S1 == ensureRoom(S0, roomId)
           S2 == relay(S1, roomId, m.id, to, payload)
       IN  IF m.id = ""
           THEN ErrorReply(c, "relay", "Send {type:'hello', id:'...'} first")
           ELSE IF roomId = ""
           THEN ErrorReply(c, "relay", "Invalid room for relay")
           ELSE IF to = ""
           THEN ErrorReply(c, "relay", "Missing 'to' for relay")
           ELSE /\ Commit(S2, meta,
                          RelayLast(c, m, roomId, to, rawPayload, S0, S2))
                /\ UNCHANGED status

\* A message whose type is none of ping, hello, create_room, join_room, relay.
Unknown(c) ==
    /\ Idle
    /\ status[c] = "open"
    /\ IF meta[c].id = ""
       THEN ErrorReply(c, "unknown", "Send {type:'hello', id:'...'} first")
       ELSE ErrorReply(c, "unknown", "Unknown type")

\* ws.on("close"): the socket is CLOSED when the handler runs.  No handler of
\* this socket runs again and meta is a WeakMap, so its entry is dropped with it.
Close(c) ==
    /\ Idle
    /\ status[c] = "open"
    /\ status' = [status EXCEPT ![c] = "closed"]
    /\ LET m == meta[c]
           S0 == Store(Open \ {c})
           S1 == IF m.room # "" /\ m.id # ""
                 THEN removeClientFromRoom(S0, m.id, m.room)
                 ELSE S0
       IN  Commit(S1, [meta EXCEPT ![c] = [id |-> "", room |-> ""]],
                  [NoLast EXCEPT !.op = "close", !.conn = c, !.room = m.room,
                                 !.from = m.id,
                                 !.leaveLen = [d \in Conns |-> Len(S1.out[d])],
                                 !.rem = IF m.room # "" /\ m.id # ""
                                         THEN RemOf(S0, S1, m.id, m.room)
                                         ELSE NoRem])

\* Mutant: the expiry deletes the room without looking at its members.
TimerCallback_NoCheck(S, roomId) ==
    [S EXCEPT !.rooms = Restrict(@, DOMAIN @ \ {roomId}),
              !.roomDeleteTimers = Restrict(@, DOMAIN @ \ {roomId})]

\* The callback scheduleRoomDeleteIfEmpty hands to setTimeout.
TimerCallback(S, roomId) ==
    LET S1 == IF roomId \in DOMAIN S.rooms /\ Len(S.rooms[roomId].clients) = 0
              THEN [S EXCEPT !.rooms = Restrict(@, DOMAIN @ \ {roomId})]
              ELSE S
    IN  [S1 EXCEPT !.roomDeleteTimers = Restrict(@, DOMAIN @ \ {roomId})]

TimerFire(t) ==
    /\ Idle
    /\ t \in DOMAIN timers
    /\ LET roomId == timers[t]
           S0 == [Store(Open) EXCEPT !.timers = Restrict(@, DOMAIN @ \ {t})]
           S1 == TimerCallback(S0, roomId)
       IN  Commit(S1, meta,
                  [NoLast EXCEPT !.op = "timer", !.room = roomId,
                                 !.timerStale = t \in stale,
                                 !.deleted = roomId \in DOMAIN rooms
                                             /\ roomId \notin DOMAIN S1.rooms])
    /\ UNCHANGED status

\* The event loop turns: the envelopes queued by the callback are written to
\* their sockets and the record of the callback is dropped.
Flush ==
    /\ ~Idle
    /\ outbox' = [c \in Conns |-> <<>>]
    /\ last' = NoLast
    /\ UNCHANGED <<status, meta, rooms, roomDeleteTimers, timers, stale, views>>

Next ==
    \/ \E c \in Conns : Connect(c)
    \/ \E c \in Conns : Malformed(c)
    \/ \E c \in Conns : Ping(c)
    \/ \E c \in Conns, rawId \in RawIds : Hello(c, rawId)
    \/ \E c \in Conns, rawRoom \in RawRooms : CreateRoom(c, rawRoom)
    \/ \E c \in Conns, rawRoom \in RawRooms : JoinRoom(c, rawRoom)
    \/ \E c \in Conns, msg \in RelayMsgs : Relay(c, msg.room, msg.to, msg.payload)
    \/ \E c \in Conns : Unknown(c)
    \/ \E c \in Conns : Close(c)
    \/ \E t \in TimerIds : TimerFire(t)
    \/ Flush

Spec == Init /\ [][Next]_vars

\* ------------------------------------------------------------- src/server.js
\* The repository's server.js holds the same server without the two fixes of
\* the other file: join_room refuses a room that does not exist, and a room is
\* deleted the moment its last client leaves.  Its connection, ping, hello and
\* unknown-type code and its relay function are the ones modelled above.  The
\* clients' views are not followed for this server.
getRoom_srv(S, roomId) == roomId \in DOMAIN S.rooms

ensureRoom_srv(S, roomId) ==
    IF roomId \notin DOMAIN S.rooms
    THEN [S EXCEPT !.rooms = (roomId :> [hostId |-> "", clients |-> <<>>]) @@ @]
    ELSE S

RECURSIVE NotifyLeft_srv(_, _, _, _)
NotifyLeft_srv(S, cl, i, clientId) ==
    IF i > Len(cl) THEN S
    ELSE NotifyLeft_srv(send(S, cl[i].ws, [type |-> "peer_left", peerId |-> clientId]),
                        cl, i + 1, clientId)

removeClientFromRoom_srv(S, clientId, roomId) ==
    IF roomId \notin DOMAIN S.rooms THEN S
    ELSE LET r == S.rooms[roomId]
             cl == MapDelete(r.clients, clientId)
             h == Promote(r.hostId, clientId, cl)
             S1 == [S EXCEPT !.rooms[roomId] = [hostId |-> h, clients |-> cl]]
             S2 == NotifyLeft_srv(S1, cl, 1, clientId)
         IN  IF Len(cl) = 0
             THEN [S2 EXCEPT !.rooms = Restrict(@, DOMAIN @ \ {roomId})]
             ELSE S2

addClientToRoom_srv(S, clientId, roomId, ws) ==
    LET S1 == ensureRoom_srv(S, roomId)
        cl == MapSet(S1.rooms[roomId].clients, clientId, ws)
        S2 == [S1 EXCEPT !.rooms[roomId].clients = cl]
    IN  NotifyJoined(S2, cl, 1, clientId)

LeavePrevious_srv(S, m) ==
    IF m.room # "" THEN removeClientFromRoom_srv(S, m.id, m.room) ELSE S

EnterLast_srv(op, c, roomId, S0) ==
    [NoLast EXCEPT !.op = op, !.conn = c, !.room = roomId,
                   !.absentBefore = roomId \notin DOMAIN S0.rooms]

CreateRoom_srv(c, rawRoom) ==
    /\ Idle
    /\ status[c] = "open"
    /\ LET m == meta[c]
           roomId == Trim(Or(rawRoom, ""))
           S0 == Store(Open)
           S1 == LeavePrevious_srv(S0, m)
           S2 == ensureRoom_srv(S1, roomId)
           S3 == [S2 EXCEPT !.rooms[roomId].hostId = m.id]
           S4 == addClientToRoom_srv(S3, m.id, roomId, c)
           r == S4.rooms[roomId]
           S5 == send(S4, c, [type |-> "room_created", room |-> roomId])
           S6 == send(S5, c, [type |-> "room_joined", room |-> roomId,
                              hostId |-> r.hostId, peers |-> Peers(r.clients, m.id)])
       IN  IF m.id = ""
           THEN ErrorReply(c, "create_room", "Send {type:'hello', id:'...'} first")
           ELSE IF roomId = ""
           THEN ErrorReply(c, "create_room", "Missing room id")
           ELSE /\ CommitStore(S6, [meta EXCEPT ![c].room = roomId],
                          EnterLast_srv("create_room", c, roomId, S0))
                /\ UNCHANGED <<status, views>>

JoinRoom_srv(c, rawRoom) ==
    /\ Idle
    /\ status[c] = "open"
    /\ LET m == meta[c]
           roomId == Trim(Or(rawRoom, ""))
           S0 == Store(Open)
           S1 == LeavePrevious_srv(S0, m)
           S2 == addClientToRoom_srv(S1, m.id, roomId, c)
           \* r was fetched before the leave: its fields are read from that record,
           \* which the store no longer holds if the leave emptied the room.
           stored == roomId \in DOMAIN S1.rooms
           hostId == IF stored THEN S2.rooms[roomId].hostId
                     ELSE Promote(S0.rooms[roomId].hostId, m.id, <<>>)
           peers == IF stored THEN Peers(S2.rooms[roomId].clients, m.id) ELSE <<>>
           S3 == send(S2, c, [type |-> "room_joined", room |-> roomId,
                              hostId |-> hostId, peers |-> peers])
       IN  IF m.id = ""
           THEN ErrorReply(c, "join_room", "Send {type:'hello', id:'...'} first")
           ELSE IF roomId = ""
           THEN ErrorReply(c, "join_room", "Missing room id")
           ELSE IF ~getRoom_srv(S0, roomId)
           THEN /\ CommitStore(
                    send(S0, c, [type |-> "error",
                                 message |-> "Room not found. Ask host to create it first."]),
                    meta,
                    [EnterLast_srv("join_room", c, roomId, S0) EXCEPT !.err = TRUE])
                /\ UNCHANGED <<status, views>>
           ELSE /\ CommitStore(S3, [meta EXCEPT ![c].room = roomId],
                          EnterLast_srv("join_room", c, roomId, S0))
                /\ UNCHANGED <<status, views>>

Relay_srv(c, rawRoom, rawTo, rawPayload) ==
    /\ Idle
    /\ status[c] = "open"
    /\ LET m == meta[c]
           roomId == Trim(Or(rawRoom, Or(m.room, "")))
           to == Trim(Or(rawTo, ""))
           payload == OrNull(rawPayload)
           S0 == Store(Open)
           S1 == relay(S0, roomId, m.id, to, payload)
       IN  IF m.id = ""
           THEN ErrorReply(c, "relay", "Send {type:'hello', id:'...'} first")
           ELSE IF roomId = "" \/ roomId \notin DOMAIN S0.rooms
           THEN ErrorReply(c, "relay", "Invalid room for relay")
           ELSE IF to = ""
           THEN ErrorReply(c, "relay", "Missing 'to' for relay")
           ELSE /\ CommitStore(S1, meta,
                          [RelayLast(c, m, roomId, to, rawPayload, S0, S1)
                              EXCEPT !.ensured = FALSE])
                /\ UNCHANGED <<status, views>>

Close_srv(c) ==
    /\ Idle
    /\ status[c] = "open"
    /\ status' = [status EXCEPT ![c] = "closed"]
    /\ UNCHANGED views
    /\ LET m == meta[c]
           S0 == Store(Open \ {c})
           S1 == IF m.room # "" /\ m.id # ""
                 THEN removeClientFromRoom_srv(S0, m.id, m.room)
                 ELSE S0
       IN  CommitStore(S1, [meta EXCEPT ![c] = [id |-> "", room |-> ""]],
                  [NoLast EXCEPT !.op = "close", !.conn = c, !.room = m.room,
                                 !.from = m.id])

NextServerJs ==
    \/ \E c \in Conns : Connect(c)
    \/ \E c \in Conns : Malformed(c)
    \/ \E c \in Conns : Ping(c)
    \/ \E c \in Conns, rawId \in RawIds : Hello(c, rawId)
    \/ \E c \in Conns, rawRoom \in RawRooms : CreateRoom_srv(c, rawRoom)
    \/ \E c \in Conns, rawRoom \in RawRooms : JoinRoom_srv(c, rawRoom)
    \/ \E c \in Conns, msg \in RelayMsgs : Relay_srv(c, msg.room, msg.to, msg.payload)
    \/ \E c \in Conns : Unknown(c)
    \/ \E c \in Conns : Close_srv(c)
    \/ Flush

SpecServerJs == Init /\ [][NextServerJs]_vars

\* ------------------------------------------------------------- properties
TypeOK ==
    /\ status \in [Conns -> {"none", "open", "closed"}]
    /\ DOMAIN rooms \subseteq {"X", "Y"}
    /\ DOMAIN roomDeleteTimers \subseteq DOMAIN rooms
    /\ \A r \in DOMAIN roomDeleteTimers : roomDeleteTimers[r] \in DOMAIN timers
    /\ stale \subseteq DOMAIN timers

Clients(r) == rooms[r].clients
ArmedFor(r) == \E t \in DOMAIN timers : timers[t] = r
Sent(c, type) == \E i \in 1..Len(outbox[c]) : outbox[c][i].type = type
SentHost(c, type, hostId) ==
    \E i \in 1..Len(outbox[c]) :
        outbox[c][i].type = type /\ outbox[c][i].hostId = hostId
ErrorSent == \E c \in Conns : Sent(c, "error")

\* C1: after every handled event, every room in the store that has no member
\* has a deletion timer armed for it.
C1_EmptyRoomHasTimer ==
    \A r \in DOMAIN rooms : Len(Clients(r)) = 0 => ArmedFor(r)

\* C2: a room leaves the store only in a timer expiry for that room that finds it
\* without members; a room with a member is never removed, and a timer expiry
\* leaves the membership and host of every room it keeps as they were.
C2_RemovedOnlyEmptyByTimer ==
    [][/\ \A r \in DOMAIN rooms :
            r \notin DOMAIN rooms' =>
                last'.op = "timer" /\ last'.room = r /\ Len(Clients(r)) = 0
       /\ last'.op = "timer" =>
            \A r \in DOMAIN rooms' : rooms'[r] = rooms[r]]_vars

\* A deletion timer expired on a room that has a member again, and the room stayed.
C2_Witness ==
    /\ last.op = "timer"
    /\ last.room \in DOMAIN rooms
    /\ Len(Clients(last.room)) > 0

\* C3: a deletion timer that was armed for a room before an ensureRoom/addMember
\* of that room never fires after it.
C3_NoStaleTimerFires ==
    last.op = "timer" => ~last.timerStale

\* C4: removeMember of the current host with members remaining leaves a non-empty
\* hostId that is one of the remaining members; removeMember of the last member
\* leaves hostId empty and a deletion timer armed for the room.
C4_HostPromotion ==
    (last.rem.called /\ last.rem.had) =>
        /\ (last.rem.wasHost /\ last.rem.keysAfter # {}) =>
                last.rem.hostAfter # "" /\ last.rem.hostAfter \in last.rem.keysAfter
        /\ last.rem.keysAfter = {} =>
                last.rem.hostAfter = "" /\ last.rem.armed

\* The host was removed from a room that kept a member.
C4_Witness ==
    /\ last.rem.called /\ last.rem.had /\ last.rem.wasHost
    /\ last.rem.keysAfter # {}

\* C5: after every handled event, the hostId of every room is empty or a key of
\* that room's member map.
C5_HostIsMember ==
    \A r \in DOMAIN rooms :
        rooms[r].hostId = "" \/ rooms[r].hostId \in MapKeySet(Clients(r))

\* A room is hosted under an id its connection has since replaced by another hello.
C5_Witness ==
    \E r \in DOMAIN rooms : \E i \in 1..Len(Clients(r)) :
        /\ Clients(r)[i].id = rooms[r].hostId
        /\ status[Clients(r)[i].ws] = "open"
        /\ meta[Clients(r)[i].ws].id \notin {"", Clients(r)[i].id}
        /\ Len(Clients(r)) > 1

\* C6: join_room by an identified connection with a non-empty room id never
\* fails: a room that did not exist is created with the joiner as host and the
\* joiner gets room_joined; a create_room for a room that has members makes the
\* creator host and sends every member a host_update carrying the creator's id.
C6_JoinBeforeCreate ==
    /\ (last.op = "join_room" /\ last.room # "") =>
            /\ ~ErrorSent
            /\ last.room \in DOMAIN rooms
            /\ Sent(last.conn, "room_joined")
            /\ last.absentBefore =>
                    /\ rooms[last.room].hostId = meta[last.conn].id
                    /\ SentHost(last.conn, "room_joined", meta[last.conn].id)
    /\ (last.op = "create_room" /\ last.room # "") =>
            /\ rooms[last.room].hostId = meta[last.conn].id
            /\ \A i \in 1..Len(Clients(last.room)) :
                    status[Clients(last.room)[i].ws] = "open" =>
                        SentHost(Clients(last.room)[i].ws, "host_update",
                                 meta[last.conn].id)

\* C7: every connection handle is a value of the member map of at most one room.
C7_AtMostOneRoom ==
    \A c \in Conns :
        Cardinality({r \in DOMAIN rooms : c \in MapValues(Clients(r))}) <= 1

\* C8: once the close of a connection is handled, its handle is a value of no
\* room's member map.
C8_ClosedNotMember ==
    \A c \in Conns :
        status[c] = "closed" => \A r \in DOMAIN rooms : c \notin MapValues(Clients(r))

\* C9: a handler that answers with an error envelope sends that one envelope to
\* the originating connection and nothing to any other, and leaves the rooms,
\* their member maps and hosts, the deletion timers and every session unchanged.
C9_ErrorsChangeNothing ==
    [][ErrorSent' =>
        /\ UNCHANGED <<status, meta, rooms, roomDeleteTimers, timers>>
        /\ \A d \in Conns :
            IF d = last'.conn
            THEN Len(outbox'[d]) = 1 /\ outbox'[d][1].type = "error"
            ELSE outbox'[d] = <<>>]_vars

\* create_room/join_room without a room id was refused while the sender is a
\* member of its current room.
C9_Witness ==
    /\ last.op \in {"create_room", "join_room"}
    /\ outbox[last.conn] = <<[type |-> "error", message |-> "Missing room id"]>>
    /\ meta[last.conn].room \in DOMAIN rooms
    /\ last.conn \in MapValues(Clients(meta[last.conn].room))

\* C10: a broadcast relay is sent to every member of the room other than the
\* sender and never to the sender's own connection handle.
C10_BroadcastExcludesSender ==
    (last.op = "relay" /\ last.bcast) =>
        /\ ~Sent(last.conn, "relay")
        /\ \A i \in 1..Len(Clients(last.room)) :
                LET ws == Clients(last.room)[i].ws
                IN  (ws # last.conn /\ status[ws] = "open") => Sent(ws, "relay")

\* C11: a relay that reaches the relay engine with a target other than "*" and
\* "all" that is no key of the room's member map sends nothing to any connection:
\* no relay envelope to anyone and no error to the sender.
C11_DirectedAbsentIsSilent ==
    (/\ last.op = "relay" /\ ~last.err /\ ~last.bcast
     /\ ~MapHas(Clients(last.room), last.to)) =>
        \A d \in Conns : outbox[d] = <<>>

\* A member relayed to an id that an open connection holds, but not in this room.
C11_Witness ==
    /\ last.op = "relay" /\ ~last.err /\ ~last.bcast
    /\ ~MapHas(Clients(last.room), last.to)
    /\ last.conn \in MapValues(Clients(last.room))
    /\ \E d \in Conns : status[d] = "open" /\ meta[d].id = last.to

\* C12: the payload of every relay envelope delivered equals the payload of the
\* inbound relay message, whatever value the client sent.
C12_PayloadPassthrough ==
    last.op = "relay" =>
        \A d \in Conns : \A i \in 1..Len(outbox[d]) :
            outbox[d][i].type = "relay" => outbox[d][i].payload = last.payload

\* What a connection was sent by the leave of the previous room, and after it.
LeaveSeg(d) == SubSeq(outbox[d], 1, last.leaveLen[d])
EnterSeg(d) == SubSeq(outbox[d], last.leaveLen[d] + 1, Len(outbox[d]))
HasPeerEvent(seg, type, id) ==
    \E i \in 1..Len(seg) : seg[i].type = type /\ seg[i].peerId = id
HasHostUpdate(seg) == \E j \in 1..Len(seg) : seg[j].type = "host_update"
\* No host_update of the segment precedes its first peer event.
PeerEventFirst(seg, type, id) ==
    HasPeerEvent(seg, type, id) =>
        \A j \in 1..Len(seg) :
            seg[j].type = "host_update" =>
                \E i \in 1..(j - 1) : seg[i].type = type /\ seg[i].peerId = id
\* The open connections held in room r under a key other than id.
OthersIn(r, id) ==
    IF r \notin DOMAIN rooms THEN {}
    ELSE {Clients(r)[i].ws : i \in {j \in 1..Len(Clients(r)) :
                /\ Clients(r)[j].id # id
                /\ status[Clients(r)[j].ws] = "open"}}

\* C13: within the handler that makes a membership change, every member of the
\* room other than the one added or removed is sent the peer event of that
\* change and then the host_update: peer_joined before the host_update of a
\* join, peer_left before the host_update of a removal.
C13_PeerEventBeforeHostUpdate ==
    /\ (last.op \in {"create_room", "join_room"} /\ ~last.err) =>
            /\ \A d \in Conns :
                    PeerEventFirst(EnterSeg(d), "peer_joined", meta[last.conn].id)
            /\ \A d \in OthersIn(last.room, meta[last.conn].id) :
                    /\ HasPeerEvent(EnterSeg(d), "peer_joined", meta[last.conn].id)
                    /\ HasHostUpdate(EnterSeg(d))
    /\ last.rem.called =>
            /\ \A d \in Conns :
                    PeerEventFirst(LeaveSeg(d), "peer_left", last.rem.clientId)
            /\ \A d \in OthersIn(last.rem.room, last.rem.clientId) :
                    /\ HasPeerEvent(LeaveSeg(d), "peer_left", last.rem.clientId)
                    /\ HasHostUpdate(LeaveSeg(d))

\* One handler left a room and entered one, and some connection was sent the
\* peer event and the host_update of both changes.
C13_Witness ==
    /\ last.op \in {"create_room", "join_room"} /\ last.rem.called /\ last.rem.had
    /\ \E d \in Conns \ {last.conn} :
            /\ HasPeerEvent(LeaveSeg(d), "peer_left", last.rem.clientId)
            /\ HasHostUpdate(LeaveSeg(d))
            /\ HasPeerEvent(EnterSeg(d), "peer_joined", meta[last.conn].id)
            /\ HasHostUpdate(EnterSeg(d))

\* C14: after every handled event, a room with one or more members has no entry
\* in the deletion-timer table.
C14_MembersNoToken ==
    \A r \in DOMAIN rooms : Len(Clients(r)) > 0 => r \notin DOMAIN roomDeleteTimers

\* A connection entered a room that stood empty with a deletion timer recorded.
C14_Witness ==
    /\ last.op \in {"create_room", "join_room"} /\ last.rejoin
    /\ Len(Clients(last.room)) > 0
    /\ last.room \notin DOMAIN roomDeleteTimers

\* C15: at any time at most one deletion timer is armed per room id, and it is
\* the one recorded for the room in the deletion-timer table.
C15_OneTimerPerRoom ==
    \A r \in {timers[t] : t \in DOMAIN timers} :
        /\ Cardinality({t \in DOMAIN timers : timers[t] = r}) <= 1
        /\ \A t \in DOMAIN timers :
                timers[t] = r => r \in DOMAIN roomDeleteTimers /\ roomDeleteTimers[r] = t

\* The open connections room r's member map holds.
OpenMembers(r) == {d \in MapValues(Clients(r)) : status[d] = "open"}

\* C16: between handlers, for every room and every open connection its member
\* map holds, the hostId of the last host_update or room_joined the connection
\* was sent for the room is the room's hostId.
C16_HostAnnounced ==
    \A r \in DOMAIN rooms : \A d \in OpenMembers(r) :
        views[d][r].known /\ views[d][r].hostId = rooms[r].hostId

\* A member that did not change the host itself holds a host other than the one
\* its room_joined carried.
C16_Witness ==
    /\ last.op \in {"create_room", "close"}
    /\ \E r \in DOMAIN rooms : \E d \in OpenMembers(r) \ {last.conn} :
            /\ SentHost(d, "host_update", rooms[r].hostId)
            /\ rooms[r].hostId # meta[d].id
            /\ last.room = r

\* C20: between handlers, for every room and every open connection its member
\* map holds, the peers the connection derives from its envelopes (the peers of
\* its last room_joined, plus each later peer_joined, minus each later peer_left)
\* are the keys of the member map other than the connection's own session id.
C20_ViewsTrackMembership ==
    \A r \in DOMAIN rooms : \A d \in OpenMembers(r) :
        views[d][r].peers = MapKeySet(Clients(r)) \ {meta[d].id}

\* C17: after every handled message or close, every room with at least one
\* member has a non-empty hostId.
C17_MembersHaveHost ==
    \A r \in DOMAIN rooms : Len(Clients(r)) > 0 => rooms[r].hostId # ""

\* The host's connection closed and the room kept a member.
C17_Witness ==
    /\ last.op = "close" /\ last.rem.had /\ last.rem.wasHost
    /\ last.room \in DOMAIN rooms
    /\ Len(Clients(last.room)) > 0

\* C18: the close of a connection, and its leave of the previous room on
\* create_room/join_room, delete from a member map only an entry whose handle is
\* that connection.
C18_RemovesOnlyOwnEntry ==
    (last.rem.called /\ last.rem.had) => last.rem.ws = last.conn

\* C19: a relay message from a connection that the named room's member map does
\* not hold under the id put in from delivers no relay envelope, does not create
\* the room and does not cancel its pending deletion.
C19_RelayByMemberOnly ==
    (/\ last.op = "relay" /\ ~last.err
     /\ ~(/\ MapHas(Clients(last.room), last.from)
          /\ MapGet(Clients(last.room), last.from) = last.conn)) =>
        /\ \A d \in Conns : ~Sent(d, "relay")
        /\ ~last.absentBefore
        /\ ~last.cancelled
====
